---- MODULE Spec2Model ----
(***************************************************************************)
(* Position monitor (positions_app.py): the session's position list, the   *)
(* cached metrics computation (hedge ratio, spread, z-score), the          *)
(* evaluation loop that classifies each position and estimates its PnL,    *)
(* and the operator actions (add, delete, refresh, auto-refresh).          *)
(*                                                                         *)
(* Numbers.  The program computes in float64.  Here a z-score is held in   *)
(* fixed point, in hundredths, truncated toward zero; the one              *)
(* float64 value that is not a number and that the program can produce,    *)
(* NaN (0.0 / 0.0 in numpy), is kept as a value of its own.  A PnL percent *)
(* is held in thousandths of a percent and a PnL in USD in 1e-5 USD, so    *)
(* that the program's products are exact and no division is needed.        *)
(***************************************************************************)
EXTENDS Integers, Sequences, FiniteSets

\* ------------------------------------------------------------------ bounds
MaxPositions == 2      \* positions the operator holds at once
MaxTime == 300         \* the wall clock stops here (seconds)

\* ------------------------------------------------------- program constants
VOLATILITY_FACTOR == 15   \* 1.5 (% per unit of z), in tenths
TTL == 300                \* st.cache_data(ttl=300), seconds
MinLen == 50              \* if min_len < 50: continue
FetchLimit == 300         \* fetch_ohlcv(..., limit=300)

\* ------------------------------------------------------------- float values
Num(v) == [nan |-> FALSE, v |-> v]
NaN == [nan |-> TRUE, v |-> 0]

\* F(v), with v worked out once and for all
With(v, F(_)) == CHOOSE y \in {F(x) : x \in {v}} : TRUE

IAbs(n) == IF n < 0 THEN -n ELSE n
IMin(a, b) == IF a < b THEN a ELSE b

\* abs(x): abs(nan) is nan
FAbs(x) == IF x.nan THEN NaN ELSE Num(IAbs(x.v))
\* x < k and x > k for a number k: every comparison with nan is False
FLess(x, k) == ~x.nan /\ x.v < k
FGreater(x, k) == ~x.nan /\ x.v > k
\* x - y and x * k: nan propagates
FSub(x, y) == IF x.nan \/ y.nan THEN NaN ELSE Num(x.v - y.v)
FMul(x, k) == IF x.nan THEN NaN ELSE Num(x.v * k)

\* ---------------------------------------------------------- integer helpers
RECURSIVE Gcd(_, _)
Gcd(a, b) == IF b = 0 THEN IAbs(a) ELSE Gcd(b, a % b)

RECURSIVE SumIn(_, _, _)
\* f[lo] + ... + f[hi], by halves
SumIn(f, lo, hi) ==
    IF lo > hi THEN 0
    ELSE IF lo = hi THEN f[lo]
    ELSE LET mid == (lo + hi) \div 2
         IN SumIn(f, lo, mid) + SumIn(f, mid + 1, hi)
Sum(f) == SumIn(f, 1, Len(f))

RECURSIVE GcdIn(_, _, _)
\* the greatest common divisor of f[lo], ..., f[hi]
GcdIn(f, lo, hi) ==
    IF lo > hi THEN 0
    ELSE IF lo = hi THEN IAbs(f[lo])
    ELSE LET mid == (lo + hi) \div 2
         IN Gcd(GcdIn(f, lo, mid), GcdIn(f, mid + 1, hi))

RECURSIVE SqrtIn(_, _, _)
\* the largest r in lo..hi with r * r <= x
SqrtIn(x, lo, hi) ==
    IF lo = hi THEN lo
    ELSE LET mid == (lo + hi + 1) \div 2
         IN IF mid * mid <= x THEN SqrtIn(x, mid, hi) ELSE SqrtIn(x, lo, mid - 1)
ISqrt(x) == SqrtIn(x, 0, 40000)

\* ------------------------------------------------- the price series provider
\* The exchange client is outside the program.  Its answers are drawn from a
\* small catalogue: each coin's market is in one of these conditions.
Coins == {"A", "B"}
Feeds == {"down", "short", "spot", "swap", "flat"}
Feed(a, b) == [c \in Coins |-> IF c = "A" THEN a ELSE b]
Markets == {Feed("spot", "spot"), Feed("swap", "swap"), Feed("down", "spot"),
            Feed("short", "spot"), Feed("spot", "flat")}
exchange_name == "okx"    \* the selectbox is left at its default (index=2)
Forms == <<"/USDT", "-USDT", "/USDT:USDT">>

Horizon == 60             \* number of the latest 4h bar the exchange holds
BarMs == 14400000         \* one 4h bar, in milliseconds

Noise == <<-1, 0, 2, 0, -1>>
\* closing price of a coin at bar j
Price(coin, feed, j) ==
    IF feed = "flat" THEN 7
    ELSE IF coin = "B" THEN 10 + 2 * (j % 2)
    ELSE IF feed = "swap" THEN 2 * (10 + 2 * (j % 2)) + Noise[((j + 2) % 5) + 1]
    ELSE 2 * (10 + 2 * (j % 2)) + Noise[(j % 5) + 1]

\* how many bars the exchange holds for a symbol; -1: the call raises
Held(coin, feed, form) ==
    CASE feed = "down" -> -1
      [] feed = "short" -> IF form = "/USDT" THEN 0
                           ELSE IF form = "-USDT" THEN MinLen - 1 ELSE -1
      [] feed = "spot" -> IF form = "/USDT:USDT" THEN -1
                          ELSE IF coin = "A" THEN MinLen + 2 ELSE MinLen
      [] feed = "swap" -> IF form = "/USDT:USDT" THEN MinLen + 10 ELSE -1
      [] feed = "flat" -> IF form = "/USDT:USDT" THEN -1 ELSE MinLen + 1

\* exchange.fetch_ohlcv(sym, '4h', limit=300): the most recent bars, oldest
\* first, each <<timestamp in ms, close>> (the other columns are never read)
fetch_ohlcv(mkt, coin, form) ==
    LET held == Held(coin, mkt[coin], form)
        n == IMin(held, FetchLimit)
    IN IF held < 0 THEN [raised |-> TRUE]
       ELSE [raised |-> FALSE,
             rows |-> [i \in 1..n |->
                         <<(Horizon - n + i) * BarMs,
                           Price(coin, mkt[coin], Horizon - n + i)>>]]

\* ------------------------------------------------------- calculate_metrics
None == [none |-> TRUE]
IsNone(d) == "none" \in DOMAIN d

\* Tail_n taking the leading samples, s[:n]
Tail_n_Leading(s, n) == SubSeq(s, 1, n)

\* s[-n:] for 1 <= n <= len(s)
Tail_n(s, n) == SubSeq(s, Len(s) - n + 1, Len(s))

\* one pass of the body of "for sym1, sym2 in symbol_variants": None stands
\* for "continue", anything else is what the loop breaks with
TryVariant(mkt, coin1, coin2, form) ==
    LET ohlcv1 == fetch_ohlcv(mkt, coin1, form)
        ohlcv2 == fetch_ohlcv(mkt, coin2, form)
    IN IF ohlcv1.raised \/ ohlcv2.raised THEN None
       ELSE IF Len(ohlcv1.rows) = 0 \/ Len(ohlcv2.rows) = 0 THEN None
       ELSE LET p1 == [i \in 1..Len(ohlcv1.rows) |-> ohlcv1.rows[i][2]]
                p2 == [i \in 1..Len(ohlcv2.rows) |-> ohlcv2.rows[i][2]]
                dates == [i \in 1..Len(ohlcv1.rows) |-> ohlcv1.rows[i][1] \div 1000]
            IN With(IMin(Len(p1), Len(p2)), LAMBDA min_len :
                 IF min_len < MinLen THEN None
                 ELSE [prices1 |-> Tail_n(p1, min_len),
                       prices2 |-> Tail_n(p2, min_len),
                       dates |-> Tail_n(dates, min_len)])

RECURSIVE VariantLoop(_, _, _, _)
\* the symbol variant loop from variant i on
VariantLoop(mkt, coin1, coin2, i) ==
    IF i > Len(Forms) THEN None
    ELSE With(TryVariant(mkt, coin1, coin2, Forms[i]),
              LAMBDA r : IF IsNone(r) THEN VariantLoop(mkt, coin1, coin2, i + 1)
                         ELSE r)

\* sm.add_constant(prices2) + sm.OLS(prices1, x).fit().params[1], as the exact
\* fraction num/den (den > 0).  add_constant leaves a regressor that is already
\* a non-zero constant alone, params then has one entry and params[1] raises.
HedgeRatio(prices1, prices2) ==
    LET n == Len(prices1)
        sx == Sum(prices2)
        sy == Sum(prices1)
        sxx == Sum([i \in 1..n |-> prices2[i] * prices2[i]])
        sxy == Sum([i \in 1..n |-> prices2[i] * prices1[i]])
    IN With(n * sxx - sx * sx, LAMBDA den :
       With(n * sxy - sx * sy, LAMBDA num :
            IF den = 0 /\ prices2[1] # 0 THEN [raised |-> TRUE]
            ELSE IF den = 0 THEN [raised |-> FALSE, num |-> 0, den |-> 1]
            ELSE With(Gcd(num, den), LAMBDA g :
                      [raised |-> FALSE, num |-> num \div g, den |-> den \div g])))

\* (spread - spread.mean()) for spread = prices1 - hedge_ratio * prices2, up to
\* a common positive factor (which the division by std cancels)
Deviations(prices1, prices2, hr) ==
    LET n == Len(prices1)
        spread == [i \in 1..n |-> hr.den * prices1[i] - hr.num * prices2[i]]
    IN With(Sum(spread), LAMBDA total :
       With(SubSeq([i \in 1..n |-> n * spread[i] - total], 1, n), LAMBDA dev :
       With(GcdIn(dev, 1, n), LAMBDA g :
            IF g = 0 THEN dev ELSE SubSeq([i \in 1..n |-> dev[i] \div g], 1, n))))

\* (spread - mean) / spread.std(), in hundredths: std is the population
\* deviation sqrt(sum(dev^2) / n), so z^2 = n * dev^2 / sum(dev^2); numpy
\* divides by a zero std without raising and 0.0 / 0.0 is nan
ZScores(dev) ==
    LET n == Len(dev)
    IN With(Sum([i \in 1..n |-> dev[i] * dev[i]]), LAMBDA ss :
         SubSeq([i \in 1..n |->
                   IF ss = 0 THEN NaN
                   ELSE With(ISqrt((10000 * n * dev[i] * dev[i]) \div ss),
                             LAMBDA q : Num(IF dev[i] < 0 THEN -q ELSE q))],
                1, n))

\* the body of calculate_metrics: what one uncached call returns
ComputeMetrics(mkt, exchange, coin1, coin2) ==
    With(VariantLoop(mkt, coin1, coin2, 1), LAMBDA a :
      IF IsNone(a) THEN None
      ELSE With(HedgeRatio(a.prices1, a.prices2), LAMBDA hr :
        IF hr.raised THEN None
        ELSE With(Deviations(a.prices1, a.prices2, hr), LAMBDA dev :
             With(ZScores(dev), LAMBDA z :
                  [current_z |-> z[Len(z)],
                   z_history |-> z,
                   dates |-> a.dates,
                   price1 |-> a.prices1[Len(a.prices1)],
                   price2 |-> a.prices2[Len(a.prices2)]]))))

Keys == {exchange_name} \X Coins \X Coins
\* the cache key of a position's call
KeyOf(pos) == <<exchange_name, pos.coin1, pos.coin2>>

\* ------------------------------------------------------------------- state
VARIABLES
    positions,       \* st.session_state.positions
    cache,           \* the entries st.cache_data holds for calculate_metrics
    now,             \* the wall clock, seconds
    market,          \* the condition of each coin's market on the exchange
    positions_data,  \* the rows of the latest evaluation pass
    buttons,         \* ids of the delete buttons the latest run rendered
    auto_refresh,    \* the auto-refresh checkbox
    computed         \* per cache key, provider computations of the latest run

vars == <<positions, cache, now, market, positions_data, buttons, auto_refresh,
          computed>>

\* ------------------------------------------------------- st.cache_data(ttl)
\* Fresh with an entry still answering at its expiry time
Fresh_Late(e, t) == e.stored /\ t <= e.expires

Absent == [stored |-> FALSE]
\* an entry answers until its expiry time is reached
Fresh(e, t) == e.stored /\ t < e.expires
\* storing an entry sets its expiry from the time of the computation and
\* drops the entries that have expired by then
Store(c, key, value, t) ==
    [k \in DOMAIN c |->
        IF k = key THEN [stored |-> TRUE, value |-> value, expires |-> t + TTL]
        ELSE IF Fresh(c[k], t) THEN c[k] ELSE Absent]

\* calculate_metrics behind its cache: the value returned, the cache after
\* the call, and whether the body ran
calculate_metrics(c, t, mkt, coin1, coin2) ==
    LET key == <<exchange_name, coin1, coin2>>
    IN IF Fresh(c[key], t)
       THEN [value |-> c[key].value, cache |-> c, ran |-> FALSE]
       ELSE With(ComputeMetrics(mkt, key[1], coin1, coin2), LAMBDA v :
                 [value |-> v, cache |-> Store(c, key, v, t), ran |-> TRUE])

\* ------------------------------------------------------- evaluation of a row
\* Classify with the 0.3 and 3.5 bounds on the other side
Classify_Closed(curr_z) ==
    LET dist_to_mean == FAbs(curr_z)
    IN IF FLess(dist_to_mean, 31) THEN "CLOSE"
       ELSE IF FLess(dist_to_mean, 100) THEN "NEAR"
       ELSE IF FGreater(dist_to_mean, 349) THEN "DANGER"
       ELSE "HOLD"

Classify(curr_z) ==
    LET dist_to_mean == FAbs(curr_z)
    IN IF FLess(dist_to_mean, 30) THEN "CLOSE"          \* d < 0.3
       ELSE IF FLess(dist_to_mean, 100) THEN "NEAR"      \* d < 1.0
       ELSE IF FGreater(dist_to_mean, 350) THEN "DANGER" \* d > 3.5
       ELSE "HOLD"

\* PnlPercent on the signed z-scores
PnlPercent_Signed(entry_z, curr_z) ==
    FMul(FSub(Num(entry_z), curr_z), VOLATILITY_FACTOR)

\* pnl_percent, in thousandths of a percent
PnlPercent(entry_z, curr_z) ==
    LET z_delta == FSub(FAbs(Num(entry_z)), FAbs(curr_z))
    IN FMul(z_delta, VOLATILITY_FACTOR)

\* pnl_usd = size * (pnl_percent / 100), in 1e-5 USD
PnlUsd(size, pnl_percent) == FMul(pnl_percent, size)

\* the row the loop appends for position pos at list index i (from 0)
Row(i, pos, data) ==
    IF IsNone(data) THEN [id |-> i, pair |-> pos.pair, error |-> TRUE]
    ELSE With(PnlPercent(pos.entry_z, data.current_z), LAMBDA pnl_percent :
            [id |-> i,
             pair |-> pos.pair,
             entry_z |-> pos.entry_z,
             curr_z |-> data.current_z,
             status |-> Classify(data.current_z),
             pnl_pct |-> pnl_percent,
             pnl_usd |-> PnlUsd(pos.size, pnl_percent),
             data |-> data])
IsError(p) == "error" \in DOMAIN p

RECURSIVE EvalLoop_Abort(_, _, _, _, _)
\* EvalLoop with a pass that ends at the first position without metrics
EvalLoop_Abort(poss, i, t, mkt, acc) ==
    IF i >= Len(poss) THEN acc
    ELSE LET pos == poss[i + 1]
         IN IF pos.status # "active" THEN EvalLoop_Abort(poss, i + 1, t, mkt, acc)
            ELSE With(calculate_metrics(acc.cache, t, mkt, pos.coin1, pos.coin2),
                   LAMBDA r :
                   With([rows |-> Append(acc.rows, Row(i, pos, r.value)),
                         cache |-> r.cache,
                         computed |->
                           IF r.ran
                           THEN [acc.computed EXCEPT ![KeyOf(pos)] = @ + 1]
                           ELSE acc.computed],
                        LAMBDA next : IF IsNone(r.value) THEN next
                                      ELSE EvalLoop_Abort(poss, i + 1, t, mkt, next)))

RECURSIVE EvalLoop(_, _, _, _, _)
\* "for i, pos in enumerate(positions)" from index i (from 0) on, with the
\* rows, the cache and the count of provider computations so far
EvalLoop(poss, i, t, mkt, acc) ==
    IF i >= Len(poss) THEN acc
    ELSE LET pos == poss[i + 1]
         IN IF pos.status # "active" THEN EvalLoop(poss, i + 1, t, mkt, acc)
            ELSE With(calculate_metrics(acc.cache, t, mkt, pos.coin1, pos.coin2),
                   LAMBDA r :
                   With([rows |-> Append(acc.rows, Row(i, pos, r.value)),
                         cache |-> r.cache,
                         computed |->
                           IF r.ran
                           THEN [acc.computed EXCEPT ![KeyOf(pos)] = @ + 1]
                           ELSE acc.computed],
                        LAMBDA next : EvalLoop(poss, i + 1, t, mkt, next)))

NoneComputed == [k \in Keys |-> 0]

\* the main screen of one script run: nothing is evaluated for an empty list
Evaluate(poss, c, t, mkt, n) ==
    IF Len(poss) = 0 THEN [rows |-> <<>>, cache |-> c, computed |-> n]
    ELSE EvalLoop(poss, 0, t, mkt, [rows |-> <<>>, cache |-> c, computed |-> n])

\* Rendered with a button for every row
Rendered_All(rows) == {rows[j].id : j \in 1..Len(rows)}

\* the detail view renders a delete button, keyed by the row's id, for each
\* row that is not an error row
Rendered(rows) == {rows[j].id : j \in {j \in 1..Len(rows) : ~IsError(rows[j])}}

\* list.pop(i), i from 0
Pop(s, i) == [j \in 1..(Len(s) - 1) |-> IF j <= i THEN s[j] ELSE s[j + 1]]

\* ----------------------------------------------------------------- actions
EntryZs == {-230}    \* entry z-scores the operator types, in hundredths
Sizes == {1000}           \* position sizes the operator types, USD
Pairs == {<<"A", "B">>, <<"A", "A">>}
Steps == {150}            \* seconds between two operator interactions
Intervals == {5}          \* the auto-refresh slider, minutes

Init ==
    /\ positions = <<>>
    /\ cache = [k \in Keys |-> Absent]
    /\ now = 0
    /\ market = Feed("spot", "spot")
    /\ positions_data = <<>>
    /\ buttons = {}
    /\ auto_refresh = FALSE
    /\ computed = NoneComputed

\* Run with an evaluation that takes each position's entry z-score anew
\* from the current z-score
Run_Reentry(poss, c, t, n) ==
    \E e \in {Evaluate(poss, c, t, market, n)} :
       /\ positions' = [j \in 1..Len(poss) |->
                          IF IsError(e.rows[j]) \/ e.rows[j].curr_z.nan THEN poss[j]
                          ELSE [poss[j] EXCEPT !.entry_z = e.rows[j].curr_z.v]]
       /\ positions_data' = e.rows
       /\ buttons' = Rendered(e.rows)
       /\ cache' = e.cache
       /\ computed' = e.computed

\* one run of the script from the top with the position list poss, which no
\* button press of that run changes
Run(poss, c, t, n) ==
    \E e \in {Evaluate(poss, c, t, market, n)} :
       /\ positions' = poss
       /\ positions_data' = e.rows
       /\ buttons' = Rendered(e.rows)
       /\ cache' = e.cache
       /\ computed' = e.computed

\* the "add position" button: append, then st.rerun()
AddPosition(coin1, coin2, entry_z, position_size) ==
    /\ Len(positions) < MaxPositions
    /\ LET new_position == [pair |-> <<coin1, coin2>>,
                            coin1 |-> coin1,
                            coin2 |-> coin2,
                            entry_z |-> entry_z,
                            size |-> position_size,
                            entry_time |-> now,
                            status |-> "active"]
       IN Run(Append(positions, new_position), cache, now, NoneComputed)
    /\ UNCHANGED <<now, market, auto_refresh>>

\* the "refresh now" button: st.rerun()
RefreshNow ==
    /\ Run(positions, cache, now, NoneComputed)
    /\ UNCHANGED <<now, market, auto_refresh>>

\* the auto-refresh checkbox: the script reruns with the new value
ToggleAutoRefresh ==
    /\ auto_refresh' = ~auto_refresh
    /\ Run(positions, cache, now, NoneComputed)
    /\ UNCHANGED <<now, market>>

\* the end of a run with auto-refresh on: sleep, then st.rerun()
AutoRefresh(refresh_interval) ==
    /\ auto_refresh
    /\ Len(positions) > 0
    /\ now + refresh_interval * 60 <= MaxTime
    /\ now' = now + refresh_interval * 60
    /\ Run(positions, cache, now', NoneComputed)
    /\ UNCHANGED <<market, auto_refresh>>

\* a press of the delete button with key del_<id>: the script reruns, the
\* positions are evaluated again, and the button, if the run comes to render
\* it, answers True: the position at that index is popped and st.rerun()
DeletePosition(id) ==
    /\ id \in buttons
    /\ \E e \in {Evaluate(positions, cache, now, market, NoneComputed)} :
          IF id \in Rendered(e.rows)
          THEN Run(Pop(positions, id), e.cache, now, e.computed)
          ELSE /\ positions' = positions
               /\ positions_data' = e.rows
               /\ buttons' = Rendered(e.rows)
               /\ cache' = e.cache
               /\ computed' = e.computed
    /\ UNCHANGED <<now, market, auto_refresh>>

\* time passes between two interactions
Tick(d) ==
    /\ now + d <= MaxTime
    /\ now' = now + d
    /\ UNCHANGED <<positions, cache, market, positions_data, buttons,
                   auto_refresh, computed>>

\* the exchange's markets change
MarketChange(m) ==
    /\ m # market
    /\ market' = m
    /\ UNCHANGED <<positions, cache, now, positions_data, buttons,
                   auto_refresh, computed>>

Next ==
    \/ \E p \in Pairs, z \in EntryZs, s \in Sizes : AddPosition(p[1], p[2], z, s)
    \/ RefreshNow
    \/ ToggleAutoRefresh
    \/ \E i \in Intervals : AutoRefresh(i)
    \/ \E id \in 0..(MaxPositions - 1) : DeletePosition(id)
    \/ \E d \in Steps : Tick(d)
    \/ \E m \in Markets : MarketChange(m)

Spec == Init /\ [][Next]_vars

\* ------------------------------------------- the evaluation of one position
\* The classification and the PnL estimate are functions of the current
\* z-score, the entry z-score and the size.  This specification starts with
\* a result for the pair A/B in the cache whose current z-score is any value
\* of a grid around the thresholds (the rest of the z history is not read by
\* the evaluation), and lets the operator add positions with entry z-scores
\* and sizes of a grid, refresh and delete; the clock stands still, so every
\* evaluation reads that result.
ZGrid == {-1000, -351, -350, -349, -230, -100, -99, -30, -29, 0,
          29, 30, 99, 100, 230, 349, 350, 351, 1000}
EntryGrid == {-230, -100, 0, 100, 350}
SizeGrid == {10, 1000}

GridData(z) ==
    [current_z |-> Num(z),
     z_history |-> [i \in 1..MinLen |-> IF i = MinLen THEN Num(z) ELSE Num(0)],
     dates |-> [i \in 1..MinLen |-> ((Horizon - MinLen + i) * BarMs) \div 1000],
     price1 |-> Price("A", "spot", Horizon),
     price2 |-> Price("B", "spot", Horizon)]

InitEval ==
    /\ positions = <<>>
    /\ \E z \in ZGrid :
         cache = [k \in Keys |->
                    IF k = <<exchange_name, "A", "B">>
                    THEN [stored |-> TRUE, value |-> GridData(z), expires |-> TTL]
                    ELSE Absent]
    /\ now = 0
    /\ market = Feed("spot", "spot")
    /\ positions_data = <<>>
    /\ buttons = {}
    /\ auto_refresh = FALSE
    /\ computed = NoneComputed

NextEval ==
    \/ \E z \in EntryGrid, s \in SizeGrid : AddPosition("A", "B", z, s)
    \/ RefreshNow
    \/ \E id \in 0..(MaxPositions - 1) : DeletePosition(id)

SpecEval == InitEval /\ [][NextEval]_vars

\* ------------------------------------------------------------------ claims
\* a step in which the script runs: any step but the passing of time and a
\* change of the markets
ScriptRun ==
    /\ ~(\E d \in Steps : Tick(d))
    /\ ~(\E m \in Markets : MarketChange(m))

\* the list s without its element at index i (from 0)
Without(s, i) == SubSeq(s, 1, i) \o SubSeq(s, i + 2, Len(s))
\* a row without its id
Shown(p) == [f \in DOMAIN p \ {"id"} |-> p[f]]
RowIds == 1..Len(positions_data)

\* C1: the status of an evaluated position depends on d = abs(current_z)
\* alone: "close now" when d < 0.3, "approaching" when 0.3 <= d < 1.0,
\* "danger" when d > 3.5 and "hold" otherwise, whatever the entry z-score
\* and the size of the position.
C1_Classification ==
    \A j \in RowIds :
        LET p == positions_data[j]
            d == IAbs(p.curr_z.v)
        IN ~IsError(p) =>
             /\ ~p.curr_z.nan
             /\ p.status = (CASE d < 30 -> "CLOSE"
                              [] d >= 30 /\ d < 100 -> "NEAR"
                              [] d >= 100 /\ d <= 350 -> "HOLD"
                              [] d > 350 -> "DANGER")

\* two positions with different entry z-scores and sizes, both at d = 3.5,
\* both "hold"
C1_Witness ==
    \E i \in RowIds, j \in RowIds :
        /\ ~IsError(positions_data[i]) /\ ~IsError(positions_data[j])
        /\ positions[i].entry_z # positions[j].entry_z
        /\ positions[i].size # positions[j].size
        /\ IAbs(positions_data[i].curr_z.v) = 350
        /\ positions_data[i].status = "HOLD"
        /\ positions_data[j].status = "HOLD"

\* C2: pnl_percent = (abs(entry_z) - abs(current_z)) * 1.5 and
\* pnl_usd = size * pnl_percent / 100, so the PnL is positive exactly when
\* abs(current_z) < abs(entry_z), zero when they are equal and negative when
\* abs(current_z) > abs(entry_z).  (z in hundredths, percent in thousandths
\* of a percent, USD in 1e-5 USD.)
C2_Pnl ==
    \A j \in RowIds :
        LET p == positions_data[j]
            pos == positions[j]
            e == IAbs(pos.entry_z)
            c == IAbs(p.curr_z.v)
        IN ~IsError(p) =>
             /\ ~p.pnl_pct.nan /\ ~p.pnl_usd.nan
             /\ p.pnl_pct.v = (e - c) * 15
             /\ p.pnl_usd.v = pos.size * p.pnl_pct.v
             /\ (p.pnl_usd.v > 0 <=> c < e)
             /\ (p.pnl_usd.v = 0 <=> c = e)
             /\ (p.pnl_usd.v < 0 <=> c > e)

\* entry_z = -2.3, current_z = -1.0, size 1000: 1.95 % and 19.50 USD
C2_Witness ==
    \E j \in RowIds :
        /\ ~IsError(positions_data[j])
        /\ positions[j].entry_z = -230 /\ positions[j].size = 1000
        /\ positions_data[j].curr_z = Num(-100)
        /\ positions_data[j].pnl_pct = Num(1950)
        /\ positions_data[j].pnl_usd = Num(1950000)

\* the value a call for key k returns at time t, given the cache c it finds:
\* the entry if it has not expired, else what the market gives
Due(c, k, t, mkt) ==
    IF c[k].stored /\ t < c[k].expires THEN c[k].value
    ELSE ComputeMetrics(mkt, k[1], k[2], k[3])

\* C3: a pass makes one row per position, in insertion order; a position
\* whose metrics are unavailable gets an error row with no PnL figure, is
\* not dropped and does not abort the pass: every other position gets the
\* row it would get in a pass over the list without the failing position.
C3_OneRowEach ==
    [][ScriptRun =>
          /\ Len(positions_data') = Len(positions')
          /\ \A j \in 1..Len(positions') :
               LET p == positions_data'[j]
               IN /\ p.id = j - 1
                  /\ p.pair = positions'[j].pair
                  /\ IsError(p) <=>
                       IsNone(Due(cache, KeyOf(positions'[j]), now', market'))
                  /\ IsError(p) => DOMAIN p = {"id", "pair", "error"}
                  /\ IsError(p) =>
                       \E rest \in {Evaluate(Without(positions', j - 1), cache,
                                              now', market', NoneComputed).rows} :
                          /\ Len(rest) = Len(positions') - 1
                          /\ \A i \in 1..Len(rest) :
                               Shown(rest[i]) =
                                 Shown(positions_data'[IF i < j THEN i ELSE i + 1])
       ]_vars

\* an error row between two evaluated rows
C3_Witness ==
    /\ Len(positions_data) = 2
    /\ IsError(positions_data[1])
    /\ ~IsError(positions_data[2])
    /\ positions_data[2].id = 1

\* C4: a position is created active; a step leaves the list as it is,
\* appends one active position or removes one active position; the
\* positions that stay keep all their fields, and no position of the list is
\* ever closed or removed in place.
C4_Lifecycle ==
    [][/\ \A j \in 1..Len(positions') : positions'[j].status = "active"
       /\ \/ positions' = positions
          \/ /\ Len(positions') = Len(positions) + 1
             /\ SubSeq(positions', 1, Len(positions)) = positions
             /\ positions'[Len(positions')].entry_time = now
          \/ \E i \in 0..(Len(positions) - 1) :
               /\ positions[i + 1].status = "active"
               /\ positions' = Without(positions, i)
       ]_vars

\* a position added at time 0 that has been evaluated since, at a current
\* z-score other than its entry z-score, after another position (whose
\* result is still in the cache) was deleted, with auto-refresh on
C4_Witness ==
    /\ Len(positions) = 1
    /\ positions[1].entry_time = 0
    /\ now > 0
    /\ auto_refresh
    /\ KeyOf(positions[1]) = <<exchange_name, "A", "B">>
    /\ cache[<<exchange_name, "A", "A">>].stored
    /\ Len(positions_data) = 1
    /\ ~IsError(positions_data[1])
    /\ positions_data[1].curr_z # Num(positions[1].entry_z)
    /\ positions_data[1].entry_z = positions[1].entry_z

\* C5: a call for a key whose entry has not reached its expiry time returns
\* the entry's result without a computation and leaves the entry (and its
\* expiry) as it is; a call at or after the expiry time computes once and
\* the new entry expires TTL later; no key is computed twice in a run.
C5_CacheTtl ==
    [][ScriptRun =>
          \A k \in Keys :
             LET called == \E j \in 1..Len(positions) : KeyOf(positions[j]) = k
                 called2 == \E j \in 1..Len(positions') : KeyOf(positions'[j]) = k
             IN IF ~(called \/ called2)
                THEN computed'[k] = 0
                ELSE IF cache[k].stored /\ now' < cache[k].expires
                THEN /\ computed'[k] = 0
                     /\ cache'[k] = cache[k]
                     /\ \A j \in 1..Len(positions') :
                          KeyOf(positions'[j]) = k =>
                            IF IsNone(cache[k].value) THEN IsError(positions_data'[j])
                            ELSE /\ ~IsError(positions_data'[j])
                                 /\ positions_data'[j].data = cache[k].value
                ELSE /\ computed'[k] = 1
                     /\ cache'[k].stored
                     /\ cache'[k].expires = now' + TTL
       ]_vars

\* a position held since time 0, hence evaluated at time 0, whose key the
\* run at time TTL computed again
C5_Witness ==
    /\ now = TTL
    /\ \E j \in 1..Len(positions) :
         /\ positions[j].entry_time = 0
         /\ computed[KeyOf(positions[j])] = 1
         /\ cache[KeyOf(positions[j])].stored
         /\ cache[KeyOf(positions[j])].expires = now + TTL

\* what the provider answers for the two symbols of a pair in a form
Answers(mkt, k, form) ==
    [one |-> fetch_ohlcv(mkt, k[2], form), two |-> fetch_ohlcv(mkt, k[3], form)]
\* the common length of the two answers; 0 when a call raised
CommonLen(a) ==
    IF a.one.raised \/ a.two.raised THEN 0
    ELSE IMin(Len(a.one.rows), Len(a.two.rows))

\* the closing prices of the trailing n rows
TrailingCloses(rows, n) ==
    SubSeq([i \in 1..Len(rows) |-> rows[i][2]], Len(rows) - n + 1, Len(rows))

\* C6: a computed result rests on the trailing N samples of each series of
\* one symbol variant, N the shorter of the two lengths and N >= 50; when no
\* variant has a common length of 50 or more, the result stored is
\* "unavailable".
C6_AlignedSeries ==
    [][ScriptRun =>
         \A k \in Keys :
            computed'[k] > 0 =>
              \E v \in {cache'[k].value} :
                 /\ cache'[k].stored
                 /\ (\A f \in 1..Len(Forms) :
                        CommonLen(Answers(market', k, Forms[f])) < MinLen)
                      => IsNone(v)
                 /\ ~IsNone(v) =>
                      \E f \in 1..Len(Forms) :
                      \E a \in {Answers(market', k, Forms[f])} :
                      \E n \in {CommonLen(a)} :
                         /\ n >= MinLen
                         /\ Len(v.z_history) = n
                         /\ Len(v.dates) = n
                         /\ \A i \in 1..n :
                              v.dates[i] =
                                a.one.rows[Len(a.one.rows) - n + i][1] \div 1000
                         /\ \E t1 \in {TrailingCloses(a.one.rows, n)},
                               t2 \in {TrailingCloses(a.two.rows, n)} :
                              /\ v.price1 = t1[n]
                              /\ v.price2 = t2[n]
                              /\ \E hr \in {HedgeRatio(t1, t2)} :
                                   /\ ~hr.raised
                                   /\ \E dev \in {Deviations(t1, t2, hr)} :
                                        v.z_history = ZScores(dev)
       ]_vars

\* a result computed from a 52-bar and a 50-bar series: 50 z-scores, the
\* first of them dated at the third bar of the longer series
C6_Witness ==
    LET k == <<exchange_name, "A", "B">>
    IN /\ market = Feed("spot", "spot")
       /\ computed[k] = 1
       /\ cache[k].stored
       /\ ~IsNone(cache[k].value)
       /\ Len(fetch_ohlcv(market, "A", Forms[1]).rows) = MinLen + 2
       /\ Len(cache[k].value.z_history) = MinLen
       /\ cache[k].value.dates[1] =
            fetch_ohlcv(market, "A", Forms[1]).rows[3][1] \div 1000

\* C7: a pair whose spread is constant (zero standard deviation) is shown
\* as an error: no row carries a classification or a PnL made from an
\* undefined z-score.
C7_ConstantSpreadIsError ==
    \A j \in RowIds :
        ~IsError(positions_data[j]) =>
           /\ ~positions_data[j].curr_z.nan
           /\ ~positions_data[j].pnl_usd.nan

\* C8: adding a position with identical asset1 and asset2 is rejected and
\* leaves the position set unchanged.
C8_IdenticalAssetsRejected ==
    [][\A c \in Coins, z \in EntryZs, s \in Sizes :
          AddPosition(c, c, z, s) => positions' = positions]_vars

\* C9: a press of the delete button of a displayed position removes that
\* position and no other: the list is the list before without the element
\* at the row's index.
C9_DeleteRemovesThatPosition ==
    [][\A id \in 0..(MaxPositions - 1) :
          DeletePosition(id) => positions' = Without(positions, id)]_vars

\* C10: the delete buttons of a run are those of the rows that are not
\* error rows, and a position is removed only in a run that evaluates it
\* successfully: while its metrics are unavailable it stays in the list.
C10_DeleteOnlyEvaluated ==
    [][/\ buttons' = {j - 1 : j \in {j \in 1..Len(positions_data') :
                                        ~IsError(positions_data'[j])}}
       /\ \A i \in 0..(Len(positions) - 1) :
             (Len(positions') < Len(positions) /\ positions' = Without(positions, i))
               => LET e == cache'[KeyOf(positions[i + 1])]
                  IN e.stored /\ now' < e.expires /\ ~IsNone(e.value)
       /\ ScriptRun =>
             \A i \in 1..Len(positions) :
                IsNone(Due(cache, KeyOf(positions[i]), now', market'))
                  => \E j \in 1..Len(positions') :
                        /\ positions'[j] = positions[i]
                        /\ IsError(positions_data'[j])
       ]_vars

\* an error row without a button beside an evaluated row with one, for a
\* position that has been in the list since time 0
C10_Witness ==
    /\ Len(positions_data) = 2
    /\ IsError(positions_data[2])
    /\ ~IsError(positions_data[1])
    /\ buttons = {0}
    /\ positions[2].entry_time = 0
    /\ now > 0

====
